---- MODULE Spec2Model ----
(***************************************************************************)
(* Model of src/src/App.tsx: the ZNC07 dashboard component.                *)
(*                                                                         *)
(* One component instance: three state hooks (financialData, expenseData,  *)
(* error), two refs (chartRef, chartInstance), the mount effect that runs  *)
(* the async function fetchData, the chart effect keyed on expenseData,    *)
(* and the render body that derives yoyData, cashflowData and the sorted   *)
(* key-insights rows and formats the currency cells.                       *)
(*                                                                         *)
(* String literals are ASCII here: the en dash of the actionOrder labels   *)
(* is written "-" and the infinity sign of Intl.NumberFormat is written    *)
(* "Infinity".                                                             *)
(***************************************************************************)
EXTENDS Integers, Sequences, FiniteSets, TLC

(* ---------------------------------------------------------------- bounds *)

\* Most data rows of the financial sheet.
MaxFinRows == 2
\* Most data rows of the expense sheet.
MaxExpRows == 3
\* Most invocations of the mount effect on the one component instance
\* (React invokes it once, and twice under development StrictMode).
MaxRuns == 2

(* ------------------------------------------------------- JavaScript values *)

\* A JavaScript value: t is what typeof answers ("blank" is a sheet cell
\* that holds no value, which exists only before decoding). A finite
\* number carries its value in hundredths in n.
Str(s) == [t |-> "string", s |-> s, n |-> 0]
Num(c) == [t |-> "number", s |-> "finite", n |-> c]
NaN == [t |-> "number", s |-> "NaN", n |-> 0]
PosInfinity == [t |-> "number", s |-> "Infinity", n |-> 0]
NegInfinity == [t |-> "number", s |-> "-Infinity", n |-> 0]
Undefined == [t |-> "undefined", s |-> "", n |-> 0]
Blank == [t |-> "blank", s |-> "", n |-> 0]

\* ToBoolean(v): "", 0, NaN and undefined are falsy.
Truthy(v) ==
    CASE v.t = "string" -> v.s # ""
      [] v.t = "number" -> v.s # "NaN" /\ ~(v.s = "finite" /\ v.n = 0)
      [] OTHER -> FALSE

\* row[key]: undefined when the row has no such property.
Get(row, key) == IF key \in DOMAIN row THEN row[key] ELSE Undefined

(* ------------------------------------------------------------ the workbooks *)

FinancialUrl == "/ZNC07 Financial Performance Data.xlsx"
ExpenseUrl == "/expense-analysis.xlsx"

YoyLabel == "YOY Expense & Profitability Analysis"
CashflowLabel == "Remaining Year Cashflow Projections"

\* The Category cells a financial sheet may hold: the two labels, a case
\* variant and an untrimmed variant of them, and an empty cell.
CategoryCells ==
    { Str(YoyLabel), Str(CashflowLabel),
      Str("yoy expense & profitability analysis"),
      Str("Remaining Year Cashflow Projections "), Blank }

\* The cells a currency column may hold.
CurrencyCells ==
    { Num(0), Num(123456), Num(-250), Num(99), NaN, PosInfinity, NegInfinity,
      Str("n/a"), Blank }

\* The cells of the "Margin Risk Assessment" column.
RiskCells == { Str("High"), Str("Low"), Str("2"), Str("constructor"), Blank }

\* The cells of the "Efficiency Alert" column: two listed labels, a label
\* that actionOrder does not list, and an empty cell.
AlertCells ==
    { Str("Investigate - Potential Risk"), Str("Stable - No Action"),
      Str("Unknown Value"), Blank }

SeqsUpTo(S, k) == UNION { [1..m -> S] : m \in 0..k }

FinRow(cat, val) == [Category |-> cat, Value_2024_Jan_July |-> val]

ExpRow(risk, alert, val) ==
    ("Margin Risk Assessment" :> risk) @@ ("Efficiency Alert" :> alert)
        @@ ("Jul 2025" :> val)

\* Financial sheets: every sequence of categories, every currency cell in a
\* row of the year-over-year slice, and a sheet without the value column.
FinancialSheets ==
    { [i \in DOMAIN cs |-> FinRow(cs[i], Num(123456))] :
          cs \in SeqsUpTo(CategoryCells, MaxFinRows) }
    \cup { << FinRow(Str(YoyLabel), v) >> : v \in CurrencyCells }
    \cup { << [Category |-> Str(YoyLabel)] >> }

\* Expense sheets: every sequence of risk cells, every sequence of alert
\* cells, and the sheets without a "Margin Risk Assessment" column.
ExpenseSheets ==
    { [i \in DOMAIN rs |-> ExpRow(rs[i], Str("Efficient Scaling"), Num(99))] :
          rs \in SeqsUpTo(RiskCells, MaxExpRows) }
    \cup { [i \in DOMAIN as |-> ExpRow(Str("High"), as[i], Num(99))] :
          as \in SeqsUpTo(AlertCells, MaxExpRows) }
    \cup { [i \in 1..m |-> ("Efficiency Alert" :> Str("Efficient Scaling"))
                              @@ ("Jul 2025" :> PosInfinity)] : m \in 1..MaxExpRows }

SampleFinancialSheet ==
    << FinRow(Str(YoyLabel), Num(123456)), FinRow(Str(CashflowLabel), Num(-250)) >>

SampleExpenseSheet ==
    << ExpRow(Str("High"), Str("Stable - No Action"), Num(99)),
       ExpRow(Blank, Str("Investigate - Potential Risk"), Num(123456)) >>

\* The pairs of workbooks served: one of the two sheets varies at a time.
Workbooks ==
    (FinancialSheets \X {SampleExpenseSheet})
    \cup ({SampleFinancialSheet} \X ExpenseSheets)

\* XLSX.utils.sheet_to_json(worksheet, { defval: "" }): one object per data
\* row, a cell without a value becomes "", and each object carries the
\* row's number.
SheetToJson(sheet) ==
    [i \in DOMAIN sheet |->
        ("__rowNum__" :> i) @@
        [k \in DOMAIN sheet[i] |->
            IF sheet[i][k].t = "blank" THEN Str("") ELSE sheet[i][k]]]

(* ------------------------------------------------------- the render body *)

\* a === b on the values of the model.
StrictEquals(a, b) == a.t = b.t /\ a.s = b.s /\ a.n = b.n /\ a.s # "NaN"

\* The mutant of CategoryMatches: the comparison ignores case and
\* surrounding blanks.
Canonical(s) ==
    CASE s = "yoy expense & profitability analysis" -> YoyLabel
      [] s = "Remaining Year Cashflow Projections " -> CashflowLabel
      [] OTHER -> s

CategoryMatchesLoosely(row, label) ==
    LET c == Get(row, "Category") IN c.t = "string" /\ Canonical(c.s) = label

\* row.Category === label
CategoryMatches(row, label) == StrictEquals(Get(row, "Category"), Str(label))

\* financialData.filter(row => row.Category === label)
FilterByCategory(rows, label) ==
    SelectSeq(rows, LAMBDA row : CategoryMatches(row, label))

\* The digits of a non-negative integer in groups of three.
RECURSIVE Grouped(_)
Grouped(k) ==
    IF k < 1000 THEN ToString(k)
    ELSE Grouped(k \div 1000) \o ","
            \o (IF k % 1000 < 10 THEN "00" ELSE IF k % 1000 < 100 THEN "0" ELSE "")
            \o ToString(k % 1000)

\* new Intl.NumberFormat('en-US', { style: 'currency', currency: 'USD' })
\*   .format(value), the value in hundredths.
IntlFormatUSD(v) ==
    CASE v.s = "Infinity" -> "$Infinity"
      [] v.s = "-Infinity" -> "-$Infinity"
      [] v.s = "NaN" -> "$NaN"
      [] OTHER ->
           LET a == IF v.n < 0 THEN 0 - v.n ELSE v.n
           IN  (IF v.n < 0 THEN "-" ELSE "") \o "$" \o Grouped(a \div 100) \o "."
                   \o (IF a % 100 < 10 THEN "0" ELSE "") \o ToString(a % 100)

\* typeof value !== 'number' || isNaN(value)
IsNotANumber(value) == value.t # "number" \/ value.s = "NaN"

formatCurrency(value) ==
    IF IsNotANumber(value) THEN "$0" ELSE IntlFormatUSD(value)

actionOrder ==
    << "Investigate - Potential Risk", "Efficient Scaling", "Productivity Gain",
       "Strong Cost Control", "Review Volatility", "Stable - No Action",
       "No Comparison", "Below Threshold" >>

\* The rank given to a value that actionOrder does not hold.
NotListed == 999

\* actionOrder.indexOf(v): the zero-based place of v, or -1.
IndexOf(list, v) ==
    IF \E k \in DOMAIN list : StrictEquals(Str(list[k]), v)
    THEN (CHOOSE k \in DOMAIN list :
              /\ StrictEquals(Str(list[k]), v)
              /\ \A j \in 1..(k - 1) : ~StrictEquals(Str(list[j]), v)) - 1
    ELSE -1

\* a["Efficiency Alert"] || ""
AlertOrEmpty(row) ==
    LET v == Get(row, "Efficiency Alert") IN IF Truthy(v) THEN v ELSE Str("")

\* The mutant of Rank: the -1 of indexOf is used as it is.
RankWithoutSentinel(row) == IndexOf(actionOrder, AlertOrEmpty(row))

\* aIdx === -1 ? 999 : aIdx
Rank(row) ==
    LET idx == IndexOf(actionOrder, AlertOrEmpty(row))
    IN  IF idx = -1 THEN NotListed ELSE idx

\* The comparator handed to sort.
Compare(a, b) == Rank(a) - Rank(b)

\* x put into the ordered sequence s behind every element that does not
\* compare greater: Array.prototype.sort is stable.
RECURSIVE InsertStable(_, _)
InsertStable(s, x) ==
    IF s = << >> THEN << x >>
    ELSE IF Compare(s[Len(s)], x) <= 0 THEN Append(s, x)
    ELSE Append(InsertStable(SubSeq(s, 1, Len(s) - 1), x), s[Len(s)])

RECURSIVE SortFrom(_, _, _)
SortFrom(rows, i, acc) ==
    IF i > Len(rows) THEN acc ELSE SortFrom(rows, i + 1, InsertStable(acc, rows[i]))

\* [...expenseData].sort((a, b) => ...)
sorted(rows) == SortFrom(rows, 1, << >>)

\* What one evaluation of the component body reads and derives.
RenderOutput(fin, exp) ==
    LET yoy == FilterByCategory(fin, YoyLabel)
        cash == FilterByCategory(fin, CashflowLabel)
        srt == sorted(exp)
    IN  [ evaluated |-> TRUE,
          financialData |-> fin,
          expenseData |-> exp,
          yoyData |-> yoy,
          cashflowData |-> cash,
          sorted |-> srt,
          yoyCells |->
              [i \in DOMAIN yoy |-> formatCurrency(Get(yoy[i], "Value_2024_Jan_July"))],
          cashflowCells |->
              [i \in DOMAIN cash |-> formatCurrency(Get(cash[i], "Value_2024_Jan_July"))],
          sortedCells |->
              [i \in DOMAIN srt |-> formatCurrency(Get(srt[i], "Jul 2025"))] ]

(* ------------------------------------------------------- the chart effect *)

\* The properties every object literal inherits from Object.prototype.
ObjectPrototypeProps ==
    { "constructor", "toString", "toLocaleString", "valueOf", "hasOwnProperty",
      "isPrototypeOf", "propertyIsEnumerable", "__proto__" }

\* The keys that are array indices, with their numbers: Object.keys lists
\* them first, in ascending order.
ArrayIndexOf == ("0" :> 0) @@ ("1" :> 1) @@ ("2" :> 2) @@ ("3" :> 3)

IsArrayIndex(key) == key \in DOMAIN ArrayIndexOf

\* row["Margin Risk Assessment"] || "Unknown"
RiskKey(row) ==
    LET v == Get(row, "Margin Risk Assessment")
    IN  IF Truthy(v) THEN v.s ELSE "Unknown"

\* An object is the sequence of its own properties in creation order; a
\* property's value is a number (isNumber, n) or, when + has concatenated,
\* a string.
HasOwn(obj, key) == \E p \in DOMAIN obj : obj[p].key = key

OwnValue(obj, key) == obj[CHOOSE p \in DOMAIN obj : obj[p].key = key]

\* (counts[key] || 0) + 1: an own positive number is incremented, a missing
\* property counts as 0, and an own string or an inherited property of
\* Object.prototype is truthy and turns the sum into a string.
Incremented(obj, key) ==
    IF HasOwn(obj, key)
    THEN LET v == OwnValue(obj, key)
         IN  IF v.isNumber THEN [key |-> key, isNumber |-> TRUE, n |-> v.n + 1]
             ELSE [key |-> key, isNumber |-> FALSE, n |-> 0]
    ELSE IF key \in ObjectPrototypeProps
         THEN [key |-> key, isNumber |-> FALSE, n |-> 0]
         ELSE [key |-> key, isNumber |-> TRUE, n |-> 1]

\* counts[key] = value: the __proto__ setter drops a value that is no
\* object, an own property is overwritten in place, a new one is appended.
Assign(obj, prop) ==
    IF prop.key = "__proto__" THEN obj
    ELSE IF HasOwn(obj, prop.key)
    THEN [p \in DOMAIN obj |-> IF obj[p].key = prop.key THEN prop ELSE obj[p]]
    ELSE Append(obj, prop)

RECURSIVE CountFrom(_, _, _)
CountFrom(rows, i, obj) ==
    IF i > Len(rows) THEN obj
    ELSE CountFrom(rows, i + 1, Assign(obj, Incremented(obj, RiskKey(rows[i]))))

\* const counts = {}; expenseData.forEach(row => { ... })
counts(rows) == CountFrom(rows, 1, << >>)

\* The own properties in the order of Object.keys and Object.values: the
\* array indices in ascending order, then the other keys as created.
RECURSIVE InsertIndex(_, _)
InsertIndex(s, prop) ==
    IF s = << >> THEN << prop >>
    ELSE IF ArrayIndexOf[s[Len(s)].key] < ArrayIndexOf[prop.key] THEN Append(s, prop)
    ELSE Append(InsertIndex(SubSeq(s, 1, Len(s) - 1), prop), s[Len(s)])

RECURSIVE IndicesFrom(_, _, _)
IndicesFrom(obj, p, acc) ==
    IF p > Len(obj) THEN acc
    ELSE IndicesFrom(obj, p + 1,
                     IF IsArrayIndex(obj[p].key) THEN InsertIndex(acc, obj[p]) ELSE acc)

OwnPropertyOrder(obj) ==
    IndicesFrom(obj, 1, << >>) \o SelectSeq(obj, LAMBDA prop : ~IsArrayIndex(prop.key))

ObjectKeys(obj) == LET o == OwnPropertyOrder(obj) IN [p \in DOMAIN o |-> o[p].key]

ObjectValues(obj) ==
    LET o == OwnPropertyOrder(obj)
    IN  [p \in DOMAIN o |-> [isNumber |-> o[p].isNumber, n |-> o[p].n]]

(* --------------------------------------------------------------- the state *)

VARIABLES
    finFile,         \* the data rows of the first sheet of the financial workbook
    expFile,         \* the data rows of the first sheet of the expense workbook
    invocations,     \* how often React invokes the mount effect on this instance
    phase,           \* "init" (constructed), "mounted" or "unmounted"
    financialData,   \* useState<FinancialData[]>([])
    expenseData,     \* useState<ExpenseData[]>([])
    error,           \* useState<string | null>(null), null written "null"
    chartInstance,   \* chartInstance.current: 0 for null, or the chart's number
    charts,          \* every Chart constructed so far, in order
    pc,              \* where each invocation of fetchData stands
    fetches,         \* the requests issued so far, in order
    setErrorCalls,   \* how often setError has been called
    renderPending,   \* a state update is waiting for its render
    expenseChanged,  \* expenseData was set since the last render
    effectPending,   \* the chart effect of the last render has not run yet
    rendered         \* what the last evaluation of the component body produced

vars ==
    << finFile, expFile, invocations, phase, financialData, expenseData, error,
       chartInstance, charts, pc, fetches, setErrorCalls, renderPending,
       expenseChanged, effectPending, rendered >>

Runs == 1..MaxRuns

\* The body has not been evaluated yet.
NoView == [ evaluated |-> FALSE, financialData |-> << >>, expenseData |-> << >>, yoyData |-> << >>,
            cashflowData |-> << >>, sorted |-> << >>, yoyCells |-> << >>,
            cashflowCells |-> << >>, sortedCells |-> << >> ]

\* chartRef.current: the canvas while the component is mounted.
chartRef == IF phase = "mounted" THEN "canvas" ELSE "null"

\* The mutant of SetState: an update reaches the state of a component that
\* is no longer mounted.
SetStateAfterUnmount(current, next) == next

\* A state setter of useState: React drops the update of a component that
\* is not mounted.
SetState(current, next) == IF phase = "mounted" THEN next ELSE current

\* The mutant of EffectProceeds: no early return on an empty dataset.
EffectProceedsOnEmpty(ref, data) == ref # "null"

\* if (!chartRef.current || expenseData.length === 0) return
EffectProceeds(ref, data) == ~(ref = "null" \/ Len(data) = 0)

\* The mutant of DestroyPrevious: the previous chart is left alone.
KeepPrevious(inst, chs) == chs

\* if (chartInstance.current) { chartInstance.current.destroy() }
DestroyPrevious(inst, chs) ==
    IF inst # 0 THEN [chs EXCEPT ![inst].live = FALSE] ELSE chs

\* The body of the chart effect: the new values of chartInstance.current
\* and of the charts constructed.
ChartEffectBody(ref, data, inst, chs) ==
    IF ~EffectProceeds(ref, data) THEN [chartInstance |-> inst, charts |-> chs]
    ELSE LET c == counts(data)
         IN  [ chartInstance |-> Len(chs) + 1,
               charts |-> Append(DestroyPrevious(inst, chs),
                                 [ labels |-> ObjectKeys(c),
                                   data |-> ObjectValues(c),
                                   rows |-> data,
                                   live |-> TRUE ]) ]

\* The mutant of RequestsOnInvoke: both workbooks are requested at once.
RequestsInParallel == << FinancialUrl, ExpenseUrl >>

\* What fetchData requests before its first await.
RequestsOnInvoke == << FinancialUrl >>

RECURSIVE RequestsOfRuns(_, _)
RequestsOfRuns(r, last) ==
    IF r > last THEN << >>
    ELSE [i \in DOMAIN RequestsOnInvoke |-> [run |-> r, url |-> RequestsOnInvoke[i]]]
            \o RequestsOfRuns(r + 1, last)

\* The message of the error an await or XLSX.read throws.
ThrownMessage(outcome) ==
    CASE outcome = "rejected" -> "Failed to fetch"
      [] outcome = "rejectedNoMessage" -> ""
      [] outcome = "decodeError" -> "Unsupported file"
      [] OTHER -> ""

\* err.message || "Error loading data"
ErrorText(message) == IF message # "" THEN message ELSE "Error loading data"

InitWith(books, invs) ==
    /\ \E book \in books : finFile = book[1] /\ expFile = book[2]
    /\ invocations \in invs
    /\ phase = "init"
    /\ financialData = << >>
    /\ expenseData = << >>
    /\ error = "null"
    /\ chartInstance = 0
    /\ charts = << >>
    /\ pc = [r \in Runs |-> "idle"]
    /\ fetches = << >>
    /\ setErrorCalls = 0
    /\ renderPending = FALSE
    /\ expenseChanged = FALSE
    /\ effectPending = FALSE
    /\ rendered = NoView

Init == InitWith(Workbooks, {1})

\* The first render, its commit, and the effects of the mount: fetchData
\* is invoked and the chart effect runs on the initial expenseData.
Mount ==
    /\ phase = "init"
    /\ phase' = "mounted"
    /\ rendered' = RenderOutput(financialData, expenseData)
    /\ pc' = [r \in Runs |-> IF r <= invocations THEN "financialFetch" ELSE "idle"]
    /\ fetches' = fetches \o RequestsOfRuns(1, invocations)
    /\ LET out == ChartEffectBody("canvas", expenseData, chartInstance, charts)
       IN  chartInstance' = out.chartInstance /\ charts' = out.charts
    /\ UNCHANGED << finFile, expFile, invocations, financialData, expenseData, error,
                    setErrorCalls, renderPending, expenseChanged, effectPending >>

\* catch (err) { setError(err.message || "Error loading data") }
Catch(r, at, message) ==
    /\ pc' = [pc EXCEPT ![r] = at]
    /\ error' = SetState(error, ErrorText(message))
    /\ setErrorCalls' = setErrorCalls + 1
    /\ renderPending' = (renderPending \/ phase = "mounted")
    /\ UNCHANGED << finFile, expFile, invocations, phase, financialData, expenseData,
                    chartInstance, charts, fetches, expenseChanged, effectPending,
                    rendered >>

\* An await that, resolved, only moves fetchData on.
Resume(r, to) ==
    /\ pc' = [pc EXCEPT ![r] = to]
    /\ UNCHANGED << finFile, expFile, invocations, phase, financialData, expenseData,
                    error, chartInstance, charts, fetches, setErrorCalls,
                    renderPending, expenseChanged, effectPending, rendered >>

\* await fetch(financial) settles; if (!financialResponse.ok) throw ...
FinancialResponse(r) ==
    /\ pc[r] = "financialFetch"
    /\ \E outcome \in {"ok", "notOk", "rejected", "rejectedNoMessage"} :
          CASE outcome = "ok" -> Resume(r, "financialBlob")
            [] outcome = "notOk" ->
                 Catch(r, "caughtFinancial", "Failed to fetch Financial Performance Data")
            [] OTHER -> Catch(r, "caughtFinancial", ThrownMessage(outcome))

\* await financialResponse.blob() settles.
FinancialBlob(r) ==
    /\ pc[r] = "financialBlob"
    /\ \E outcome \in {"ok", "rejected"} :
          IF outcome = "ok" THEN Resume(r, "financialArrayBuffer")
          ELSE Catch(r, "caughtFinancial", ThrownMessage(outcome))

\* await financialBlob.arrayBuffer() settles; XLSX.read, sheet_to_json,
\* setFinancialData, and the request of the expense workbook.
FinancialDecode(r) ==
    /\ pc[r] = "financialArrayBuffer"
    /\ \E outcome \in {"ok", "rejected", "decodeError"} :
          IF outcome = "ok"
          THEN /\ pc' = [pc EXCEPT ![r] = "expenseFetch"]
               /\ financialData' = SetState(financialData, SheetToJson(finFile))
               /\ renderPending' = (renderPending \/ phase = "mounted")
               /\ fetches' = Append(fetches, [run |-> r, url |-> ExpenseUrl])
               /\ UNCHANGED << finFile, expFile, invocations, phase, expenseData, error,
                               chartInstance, charts, setErrorCalls, expenseChanged,
                               effectPending, rendered >>
          ELSE Catch(r, "caughtFinancial", ThrownMessage(outcome))

\* await fetch(expense) settles; if (!expenseResponse.ok) throw ...
ExpenseResponse(r) ==
    /\ pc[r] = "expenseFetch"
    /\ \E outcome \in {"ok", "notOk", "rejected", "rejectedNoMessage"} :
          CASE outcome = "ok" -> Resume(r, "expenseBlob")
            [] outcome = "notOk" ->
                 Catch(r, "caughtExpense", "Failed to fetch Expense Analysis Data")
            [] OTHER -> Catch(r, "caughtExpense", ThrownMessage(outcome))

\* await expenseResponse.blob() settles.
ExpenseBlob(r) ==
    /\ pc[r] = "expenseBlob"
    /\ \E outcome \in {"ok", "rejected"} :
          IF outcome = "ok" THEN Resume(r, "expenseArrayBuffer")
          ELSE Catch(r, "caughtExpense", ThrownMessage(outcome))

\* await expenseBlob.arrayBuffer() settles; XLSX.read, sheet_to_json and
\* setExpenseData.
ExpenseDecode(r) ==
    /\ pc[r] = "expenseArrayBuffer"
    /\ \E outcome \in {"ok", "rejected", "decodeError"} :
          IF outcome = "ok"
          THEN /\ pc' = [pc EXCEPT ![r] = "done"]
               /\ expenseData' = SetState(expenseData, SheetToJson(expFile))
               /\ renderPending' = (renderPending \/ phase = "mounted")
               /\ expenseChanged' = (expenseChanged \/ phase = "mounted")
               /\ UNCHANGED << finFile, expFile, invocations, phase, financialData, error,
                               chartInstance, charts, fetches, setErrorCalls,
                               effectPending, rendered >>
          ELSE Catch(r, "caughtExpense", ThrownMessage(outcome))

\* React renders the component again after a state update: the body is
\* evaluated, and the chart effect is scheduled when expenseData changed.
\* The effects of the previous render have run by then.
Render ==
    /\ phase = "mounted"
    /\ renderPending
    /\ ~effectPending
    /\ rendered' = RenderOutput(financialData, expenseData)
    /\ renderPending' = FALSE
    /\ effectPending' = expenseChanged
    /\ expenseChanged' = FALSE
    /\ UNCHANGED << finFile, expFile, invocations, phase, financialData, expenseData,
                    error, chartInstance, charts, pc, fetches, setErrorCalls >>

\* useEffect(() => { ... }, [expenseData])
ChartEffect ==
    /\ phase = "mounted"
    /\ effectPending
    /\ effectPending' = FALSE
    /\ LET out == ChartEffectBody(chartRef, expenseData, chartInstance, charts)
       IN  chartInstance' = out.chartInstance /\ charts' = out.charts
    /\ UNCHANGED << finFile, expFile, invocations, phase, financialData, expenseData,
                    error, pc, fetches, setErrorCalls, renderPending, expenseChanged,
                    rendered >>

\* The component is torn down: pending effects are flushed first, pending
\* updates are dropped, the canvas is detached. Neither effect returns a
\* cleanup, so fetchData runs on and the chart is not destroyed.
Unmount ==
    /\ phase = "mounted"
    /\ ~effectPending
    /\ phase' = "unmounted"
    /\ renderPending' = FALSE
    /\ expenseChanged' = FALSE
    /\ UNCHANGED << finFile, expFile, invocations, financialData, expenseData, error,
                    chartInstance, charts, pc, fetches, setErrorCalls, effectPending,
                    rendered >>

Next ==
    \/ Mount
    \/ \E r \in Runs : FinancialResponse(r)
    \/ \E r \in Runs : FinancialBlob(r)
    \/ \E r \in Runs : FinancialDecode(r)
    \/ \E r \in Runs : ExpenseResponse(r)
    \/ \E r \in Runs : ExpenseBlob(r)
    \/ \E r \in Runs : ExpenseDecode(r)
    \/ Render
    \/ ChartEffect
    \/ Unmount

Spec == Init /\ [][Next]_vars

\* The same instance with the mount effect invoked more than once on the
\* sample workbooks.
InitReinvoked == InitWith({ << SampleFinancialSheet, SampleExpenseSheet >> }, 2..MaxRuns)

SpecReinvoked == InitReinvoked /\ [][Next]_vars

(* ---------------------------------------------------------------- the claims *)

Caught(r) == pc[r] \in {"caughtFinancial", "caughtExpense"}

\* setFinancialData has been called by some invocation.
FinancialLoaded ==
    \E r \in Runs :
        pc[r] \in {"expenseFetch", "expenseBlob", "expenseArrayBuffer", "done",
                   "caughtExpense"}

\* setExpenseData has been called by some invocation.
ExpenseLoaded == \E r \in Runs : pc[r] = "done"

LiveCharts == { c \in DOMAIN charts : charts[c].live }

ExpenseRequested == \E i \in DOMAIN fetches : fetches[i].url = ExpenseUrl

\* C1: once a fetch or decode of either workbook has failed, an error
\* message is shown, no chart has been constructed, and financialData and
\* expenseData are both empty, so that all three tables have no data rows.
C1_FailedLoadShowsNothing ==
    (phase = "mounted" /\ \E r \in Runs : Caught(r)) =>
        /\ error # "null"
        /\ charts = << >>
        /\ financialData = << >>
        /\ expenseData = << >>

\* C2: at most one constructed chart is not destroyed, and it is the one
\* chartInstance.current holds.
C2_AtMostOneLiveChart ==
    /\ Cardinality(LiveCharts) <= 1
    /\ \A c \in LiveCharts : c = chartInstance

C2_Witness ==
    /\ Len(charts) >= 2
    /\ ~charts[1].live
    /\ charts[Len(charts)].live

\* C3, as claimed: once the component body has been evaluated, both
\* datasets have been loaded and stored.
C3_LoadedBeforeAnyRead ==
    rendered.evaluated => (FinancialLoaded /\ ExpenseLoaded)

\* C3, amended: every evaluation of the body reads, for each dataset,
\* either the initial empty array or the complete decoded sheet, a
\* non-empty one only after its load has completed; and every Margin Risk
\* count was taken on the complete, non-empty, loaded expense dataset.
C3_ReadsEmptyOrComplete ==
    /\ rendered.financialData \in { << >>, SheetToJson(finFile) }
    /\ rendered.financialData # << >> => FinancialLoaded
    /\ rendered.expenseData \in { << >>, SheetToJson(expFile) }
    /\ rendered.expenseData # << >> => ExpenseLoaded
    /\ \A c \in DOMAIN charts :
          /\ charts[c].rows = SheetToJson(expFile)
          /\ charts[c].rows # << >>
          /\ ExpenseLoaded

C3_Witness ==
    /\ Len(charts) = 1
    /\ rendered.yoyData # << >>
    /\ rendered.sorted # << >>
    /\ Len(rendered.sorted) = Len(expFile)

\* What a step after the teardown leaves alone.
DiscardsResult ==
    /\ financialData' = financialData
    /\ expenseData' = expenseData
    /\ error' = error
    /\ chartInstance' = chartInstance
    /\ charts' = charts
    /\ rendered' = rendered

\* C4, as claimed: after the teardown no step updates a dataset or the
\* error, constructs a chart, or issues a further fetch.
C4_NoFurtherFetch ==
    [][phase = "unmounted" => (DiscardsResult /\ fetches' = fetches)]_vars

\* C4, amended: after the teardown no step updates a dataset or the
\* error or constructs a chart (fetchData itself runs on and still
\* requests the expense workbook).
C4_ResultDiscarded == [][phase = "unmounted" => DiscardsResult]_vars

\* Both workbooks held rows and both loads completed after the teardown.
C4_Witness ==
    /\ phase = "unmounted"
    /\ pc[1] = "done"
    /\ Len(fetches) = 2
    /\ finFile # << >> /\ financialData = << >>
    /\ expFile # << >> /\ expenseData = << >>
    /\ charts = << >>

\* The key the claims give a row: its "Margin Risk Assessment" value, or
\* "Unknown" when that is blank or absent.
ClaimedKey(row) ==
    LET v == Get(row, "Margin Risk Assessment")
    IN  IF v.t = "string" /\ v.s # "" THEN v.s ELSE "Unknown"

Occurrences(rows, key) == Cardinality({ i \in DOMAIN rows : ClaimedKey(rows[i]) = key })

RECURSIVE SumOf(_)
SumOf(values) ==
    IF values = << >> THEN 0 ELSE values[1].n + SumOf(Tail(values))

RECURSIVE FirstOccurrences(_, _, _)
FirstOccurrences(rows, i, acc) ==
    IF i > Len(rows) THEN acc
    ELSE FirstOccurrences(rows, i + 1,
             IF \E p \in DOMAIN acc : acc[p] = ClaimedKey(rows[i]) THEN acc
             ELSE Append(acc, ClaimedKey(rows[i])))

\* C5: the counts of every chart are numbers that sum to the number of
\* rows counted, each key holding the number of rows with that key.
C5_CountsSumToRows ==
    \A c \in DOMAIN charts :
        /\ \A p \in DOMAIN charts[c].data : charts[c].data[p].isNumber
        /\ SumOf(charts[c].data) = Len(charts[c].rows)
        /\ \A i \in DOMAIN charts[c].rows :
              \E p \in DOMAIN charts[c].labels :
                  /\ charts[c].labels[p] = ClaimedKey(charts[c].rows[i])
                  /\ charts[c].data[p].n = Occurrences(charts[c].rows, charts[c].labels[p])

\* C6: the labels of every chart are the distinct keys of the rows in the
\* order of their first occurrence, and the value at each place is the
\* count of the label at that place.
C6_LabelsInFirstOccurrenceOrder ==
    \A c \in DOMAIN charts :
        /\ charts[c].labels = FirstOccurrences(charts[c].rows, 1, << >>)
        /\ Len(charts[c].data) = Len(charts[c].labels)
        /\ \A p \in DOMAIN charts[c].labels :
              charts[c].data[p] =
                  [isNumber |-> TRUE, n |-> Occurrences(charts[c].rows, charts[c].labels[p])]

\* The place of a row's "Efficiency Alert" in actionOrder, and one past the
\* end for a value the list does not hold.
ClaimedRank(row) ==
    LET v == Get(row, "Efficiency Alert")
    IN  IF v.t = "string" /\ \E k \in DOMAIN actionOrder : actionOrder[k] = v.s
        THEN CHOOSE k \in DOMAIN actionOrder : actionOrder[k] = v.s
        ELSE Len(actionOrder) + 1

\* C7: the key-insights rows are a permutation of expenseData in
\* non-decreasing rank, unlisted and blank values last, equal ranks in
\* input order.
C7_SortedByPriorityStable ==
    LET in == rendered.expenseData
        out == rendered.sorted
    IN  /\ Len(out) = Len(in)
        /\ \A i \in DOMAIN in : \E j \in DOMAIN out : out[j] = in[i]
        /\ \A i, j \in DOMAIN out :
              i < j =>
                  /\ ClaimedRank(out[i]) <= ClaimedRank(out[j])
                  /\ ClaimedRank(out[i]) = ClaimedRank(out[j]) =>
                        out[i]["__rowNum__"] < out[j]["__rowNum__"]

\* The sort moved rows, among them two of equal rank and an unlisted value
\* that came before a listed one.
C7_Witness ==
    LET in == rendered.expenseData
        out == rendered.sorted
    IN  /\ Len(in) = 3
        /\ out # in
        /\ \E i, j \in DOMAIN in :
              i < j /\ ClaimedRank(in[i]) = ClaimedRank(in[j])
        /\ \E i, j \in DOMAIN in :
              /\ i < j
              /\ ClaimedRank(in[i]) > Len(actionOrder)
              /\ ClaimedRank(in[j]) <= Len(actionOrder)

IsSliceOf(view, rows, label) ==
    /\ \A j \in DOMAIN view :
          \E i \in DOMAIN rows : rows[i] = view[j]
    /\ \A i \in DOMAIN rows :
          (Get(rows[i], "Category") = Str(label)) <=> (\E j \in DOMAIN view : view[j] = rows[i])
    /\ \A j, k \in DOMAIN view :
          j < k => view[j]["__rowNum__"] < view[k]["__rowNum__"]

\* C8: yoyData and cashflowData hold exactly the rows of financialData
\* whose Category is the label itself, in their original order (and none
\* when no row matches).
C8_ExactCategorySlices ==
    /\ IsSliceOf(rendered.yoyData, rendered.financialData, YoyLabel)
    /\ IsSliceOf(rendered.cashflowData, rendered.financialData, CashflowLabel)

\* A slice that leaves out a row whose category differs only in case or in
\* a trailing blank, and the empty slice of a non-empty dataset.
C8_Witness ==
    /\ rendered.financialData # << >>
    /\ \E i \in DOMAIN rendered.financialData :
          LET c == Get(rendered.financialData[i], "Category")
          IN  c.s # Canonical(c.s)
    /\ \/ rendered.yoyData # << >>
       \/ rendered.cashflowData # << >>

IsFiniteNumber(v) == v.t = "number" /\ v.s = "finite"

CellsAgree(cells, rows, column) ==
    \A i \in DOMAIN cells :
        (cells[i] = "$0") <=> ~IsFiniteNumber(Get(rows[i], column))

\* C9: a currency cell shows "$0" exactly when its value is not a finite
\* number.
C9_DollarZeroIffNotFinite ==
    /\ CellsAgree(rendered.yoyCells, rendered.yoyData, "Value_2024_Jan_July")
    /\ CellsAgree(rendered.cashflowCells, rendered.cashflowData, "Value_2024_Jan_July")
    /\ CellsAgree(rendered.sortedCells, rendered.sorted, "Jul 2025")

C10_Sequential ==
    /\ ExpenseRequested =>
          /\ FinancialLoaded
          /\ financialData = SheetToJson(finFile) \/ phase = "unmounted"
    /\ pc[1] = "caughtFinancial" =>
          /\ ~ExpenseRequested
          /\ expenseData = << >>
          /\ setErrorCalls = 1
          /\ error # "null" \/ phase = "unmounted"
    /\ setErrorCalls <= 1
    /\ setErrorCalls = 0 => error = "null"

\* C10: the expense workbook is requested only after the financial one has
\* been fetched, decoded and stored; after a failed financial load it is
\* never requested, expenseData stays empty, and the error is set once and
\* never changes again.
C10_StrictlySequential ==
    [](C10_Sequential) /\ [][error # "null" => error' = error]_vars

C10_Witness ==
    /\ phase = "mounted"
    /\ pc[1] = "caughtFinancial"
    /\ error # "null"
    /\ ~renderPending

====
